---- MODULE Spec2Model ----
(***************************************************************************)
(* A model of goboy's cartridge banking controllers (pkg/cart: MBC1, MBC2, *)
(* MBC3, MBC5) and of the machine execution engine (pkg/gb/gameboy.go:     *)
(* interrupts, stack, divider/timer, save states, the frame loop Update).  *)
(*                                                                         *)
(* Numbers are written in decimal; the hexadecimal value of the source is  *)
(* given in the comment beside each of them.                               *)
(***************************************************************************)
EXTENDS Integers, Sequences, FiniteSets, TLC

VARIABLES
    \* ---- pkg/cart: one banking controller ----
    kind,        \* which constructor built the controller: "MBC1".."MBC5"
    RomBank,     \* BaseMBC.RomBank (uint32)
    RamEnabled,  \* BaseMBC.RamEnabled
    Ram,         \* BaseMBC.Ram, as the function of its non-zero cells
    RamBank,     \* MBC1/MBC3/MBC5 .RamBank (uint32)
    RomBanking,  \* MBC1.RomBanking
    Rtc,         \* MBC3.Rtc        ([0..15 -> byte])
    LatchedRtc,  \* MBC3.LatchedRtc ([0..15 -> byte])
    Latched,     \* MBC3.Latched
    panicked,    \* a Go run-time panic (index out of range) ended the program
    call,        \* the last call made on the controller, with its result
    pre,         \* the controller's fields when that call was made
    \* ---- pkg/gb: the machine ----
    interruptsEnabling,  \* Gameboy.interruptsEnabling
    interruptsOn,        \* Gameboy.interruptsOn
    halted,              \* Gameboy.halted
    paused,              \* Gameboy.paused
    currentSpeed,        \* Gameboy.currentSpeed (byte)
    prepareSpeed,        \* Gameboy.prepareSpeed
    PC,                  \* CPU.PC (uint16)
    SP,                  \* CPU.SP (uint16)
    IFreg,               \* Memory.HighRAM[0x0F], the interrupt-flag register
    IEreg,               \* Memory.HighRAM[0xFF], the interrupt-enable register
    mem,                 \* ordinary RAM, as the function of its non-zero bytes
    Divider,             \* CPU.Divider (int)
    DIV,                 \* Memory.HighRAM[0x04], the divider register
    timerCounter,        \* Gameboy.timerCounter (int)
    TIMA,                \* Memory.HighRAM[0x05]
    TMA,                 \* Memory.HighRAM[0x06]
    TAC,                 \* Memory.HighRAM[0x07]
    gbcall,              \* the last call made on the machine, with its result
    gbpre,               \* the machine's fields when that call was made
    elapsed,             \* history: the cycles handed to updateTimers so far
    allSmall,            \* history: no single updateTimers call exceeded 255
    DIVstart,            \* history: the divider register at the start
    TIMAstart,           \* history: the timer counter register at the start
    \* ---- pkg/gb: one call of Update ----
    upc,                 \* where Update stands: "idle" (not running), "loop"
    frameCycles,         \* Update's local variable cycles
    instr,               \* history: what the last iteration executed
    sinceEI,             \* history: instructions executed since the last EI
    executed,            \* history: instructions executed so far
    ran                  \* history: a frame has been started

cartVars == <<kind, RomBank, RamEnabled, Ram, RamBank, RomBanking, Rtc,
              LatchedRtc, Latched, panicked, call, pre>>

gbVars == <<interruptsEnabling, interruptsOn, halted, paused, currentSpeed,
            prepareSpeed, PC, SP, IFreg, IEreg, mem,
            Divider, DIV, timerCounter, TIMA, TMA, TAC, gbcall, gbpre,
            elapsed, allSmall, DIVstart, TIMAstart>>

loopVars == <<upc, frameCycles, instr, sinceEI, executed, ran>>

vars == <<cartVars, gbVars, loopVars>>

-----------------------------------------------------------------------------
(* Bounds of the model and sampled inputs.                                 *)

\* bytes written through WriteRAM range over 0..MaxData
MaxData == 1

\* number of 16 KiB banks of the ROM image handed to the constructor
RomBanks == 512

DataVals == 0..MaxData

\* byte values written through WriteROM:
\*   0x00, 0x01, 0x0A, 0x20, 0x80
RomVals == {0, 1, 10, 32, 128}

\* one address per bank-select range (two where MBC2 looks at bit 8):
\*   0x0000, 0x2000, 0x2100, 0x3000, 0x4000, 0x6000
RomAddrs == {0, 8192, 8448, 12288, 16384, 24576}

\* addresses in the RAM window 0xA000-0xBFFF
RamAddrs == {40960}

\* addresses read: fixed bank, switched bank, RAM window
ReadAddrs == {0, 16384} \cup RamAddrs

Variants == {"MBC1", "MBC2", "MBC3", "MBC5"}

\* the value a panicking read "returns"
Panic == 0 - 1

-----------------------------------------------------------------------------
(* Bit operations on naturals.                                             *)

RECURSIVE BitAnd(_, _)
BitAnd(a, b) ==
    IF a = 0 \/ b = 0 THEN 0
    ELSE (a % 2) * (b % 2) + 2 * BitAnd(a \div 2, b \div 2)

RECURSIVE BitOr(_, _)
BitOr(a, b) ==
    IF a = 0 THEN b
    ELSE IF b = 0 THEN a
    ELSE (IF a % 2 = 1 \/ b % 2 = 1 THEN 1 ELSE 0) + 2 * BitOr(a \div 2, b \div 2)

-----------------------------------------------------------------------------
(* The ROM image and the RAM buffer.                                       *)

\* the byte of the ROM image at index i; every bank holds different bytes
RomAt(i) == ((i \div 16384) * 7 + (i % 16384)) % 251

RomLen == RomBanks * 16384

\* r.Rom[i]: panics when i is outside the image
RomRead(i) == IF i < RomLen THEN RomAt(i) ELSE Panic

\* len(r.Ram) as allocated by the constructors
RamLen(k) ==
    CASE k = "MBC1" -> 32768     \* 0x8000
      [] k = "MBC2" -> 8192      \* 0x2000
      [] k = "MBC3" -> 32768     \* 0x8000
      [] k = "MBC5" -> 131072    \* 0x20000

\* r.Ram[i] of a buffer held as the function of its non-zero cells
RamAt(ram, i) == IF i \in DOMAIN ram THEN ram[i] ELSE 0

RamRead(ram, i) == IF i < RamLen(kind) THEN RamAt(ram, i) ELSE Panic

\* r.Ram[i] = v
RamSet(ram, i, v) ==
    LET d == IF v = 0 THEN DOMAIN ram \ {i} ELSE DOMAIN ram \cup {i}
    IN  [j \in d |-> IF j = i THEN v ELSE ram[j]]

ZeroRtc == [i \in 0..15 |-> 0]

EmptyRam == [i \in {} |-> 0]

\* the fields of the controller, as one record
CartState ==
    [RomBank |-> RomBank, RamEnabled |-> RamEnabled, Ram |-> Ram,
     RamBank |-> RamBank, RomBanking |-> RomBanking, Rtc |-> Rtc,
     LatchedRtc |-> LatchedRtc, Latched |-> Latched]

\* NewMBC1, NewMBC2, NewMBC3, NewMBC5: RomBank 1, a zeroed RAM buffer, and
\* Go's zero value in every other field
NewMBC ==
    [RomBank |-> 1, RamEnabled |-> FALSE, Ram |-> EmptyRam,
     RamBank |-> 0, RomBanking |-> FALSE, Rtc |-> ZeroRtc,
     LatchedRtc |-> ZeroRtc, Latched |-> FALSE]

Called(op, address, value, ret) ==
    [op |-> op, address |-> address, value |-> value, ret |-> ret]

InitNew(k) ==
    /\ kind = k
    /\ RomBank = NewMBC.RomBank
    /\ RamEnabled = NewMBC.RamEnabled
    /\ Ram = NewMBC.Ram
    /\ RamBank = NewMBC.RamBank
    /\ RomBanking = NewMBC.RomBanking
    /\ Rtc = NewMBC.Rtc
    /\ LatchedRtc = NewMBC.LatchedRtc
    /\ Latched = NewMBC.Latched
    /\ panicked = FALSE
    /\ call = Called("New", 0, 0, 0)
    /\ pre = NewMBC

InitCart == \E k \in Variants : InitNew(k)

\* a call that returns normally: record it and the fields it found
Returns(op, address, value, ret) ==
    /\ ~panicked
    /\ call' = Called(op, address, value, ret)
    /\ pre' = CartState
    /\ panicked' = (ret = Panic)
    /\ UNCHANGED <<gbVars, loopVars>>

-----------------------------------------------------------------------------
(* MBC1 (src/unnamed/part_001)                                             *)

\* the index into r.Ram used by MBC1, MBC3 and MBC5
BankedRamIndex(address) == (8192 * RamBank) + (address - 40960)

\* the index into r.Rom of the switched bank
BankedRomIndex(address) == (address - 16384) + (RomBank * 16384)

MBC1_Read(address) ==
    IF address < 16384 THEN RomRead(address)
    ELSE IF address < 32768 THEN RomRead(BankedRomIndex(address))
    ELSE RamRead(Ram, BankedRamIndex(address))

\* RomBank after updateRomBankIfZero
MBC1_updateRomBankIfZero(bank) ==
    IF bank \in {0, 32, 64, 96} THEN bank + 1 ELSE bank

\* RamEnabled after the RAM-enable write shared by MBC1, MBC2 and MBC5
RamEnableWrite(value) ==
    IF BitAnd(value, 15) = 10 THEN TRUE
    ELSE IF BitAnd(value, 15) = 0 THEN FALSE
    ELSE RamEnabled

\* RomBank after the write to [0x6000, 0x8000): switching out of ROM banking
\* keeps the low 5 bits
MBC1_ModeRomBank(romBanking) ==
    IF romBanking THEN RomBank ELSE BitAnd(RomBank, 31)

\* mutant: the RAM bank is not reset on the switch to ROM banking
MBC1_ModeRamBank_NoReset(romBanking) ==
    RamBank

\* RamBank after the write to [0x6000, 0x8000)
MBC1_ModeRamBank(romBanking) ==
    IF romBanking THEN 0 ELSE RamBank

MBC1_WriteROM(address, value) ==
    /\ kind = "MBC1"
    /\ Returns("WriteROM", address, value, 0)
    /\ IF address < 8192 THEN
           /\ RamEnabled' = RamEnableWrite(value)
           /\ UNCHANGED <<RomBank, RamBank, RomBanking>>
       ELSE IF address < 16384 THEN
           /\ RomBank' = MBC1_updateRomBankIfZero(
                             BitOr(BitAnd(RomBank, 224), BitAnd(value, 31)))
           /\ UNCHANGED <<RamEnabled, RamBank, RomBanking>>
       ELSE IF address < 24576 THEN
           /\ IF RomBanking THEN
                  /\ RomBank' = MBC1_updateRomBankIfZero(
                                    BitOr(BitAnd(RomBank, 31), BitAnd(value, 224)))
                  /\ UNCHANGED RamBank
              ELSE
                  /\ RamBank' = BitAnd(value, 3)
                  /\ UNCHANGED RomBank
           /\ UNCHANGED <<RamEnabled, RomBanking>>
       ELSE
           /\ RomBanking' = (BitAnd(value, 1) = 0)
           /\ RamBank' = MBC1_ModeRamBank(RomBanking')
           /\ RomBank' = MBC1_ModeRomBank(RomBanking')
           /\ UNCHANGED RamEnabled
    /\ UNCHANGED <<kind, Ram, Rtc, LatchedRtc, Latched>>

\* mutant: the write is made whether or not the RAM is enabled
MBC1_WriteRAM_Always(address, value) ==
    /\ kind = "MBC1"
    /\ Returns("WriteRAM", address, value, 0)
    /\ Ram' = RamSet(Ram, BankedRamIndex(address), value)
    /\ UNCHANGED <<kind, RomBank, RamEnabled, RamBank, RomBanking, Rtc,
                   LatchedRtc, Latched>>

MBC1_WriteRAM(address, value) ==
    /\ kind = "MBC1"
    /\ Returns("WriteRAM", address, value,
               IF RamEnabled /\ BankedRamIndex(address) >= RamLen(kind)
               THEN Panic ELSE 0)
    /\ Ram' = IF RamEnabled /\ BankedRamIndex(address) < RamLen(kind)
              THEN RamSet(Ram, BankedRamIndex(address), value) ELSE Ram
    /\ UNCHANGED <<kind, RomBank, RamEnabled, RamBank, RomBanking, Rtc,
                   LatchedRtc, Latched>>

-----------------------------------------------------------------------------
(* MBC2 (src/pkg/cart/mbc2.go, lines 1-73)                                 *)

MBC2_Read(address) ==
    IF address < 16384 THEN RomRead(address)
    ELSE IF address < 32768 THEN RomRead(BankedRomIndex(address))
    ELSE RamRead(Ram, address - 40960)

\* RomBank after the bank-select write with address bit 8 set
MBC2_SelectRomBank(value) ==
    LET bank == BitAnd(value, 15)
    IN  IF bank \in {0, 32, 64, 96} THEN bank + 1 ELSE bank

MBC2_WriteROM(address, value) ==
    /\ kind = "MBC2"
    /\ Returns("WriteROM", address, value, 0)
    /\ IF address < 8192 THEN
           /\ RamEnabled' = IF BitAnd(address, 256) = 0
                            THEN RamEnableWrite(value) ELSE RamEnabled
           /\ UNCHANGED RomBank
       ELSE IF address < 16384 THEN
           /\ RomBank' = IF BitAnd(address, 256) = 256
                         THEN MBC2_SelectRomBank(value) ELSE RomBank
           /\ UNCHANGED RamEnabled
       ELSE
           UNCHANGED <<RomBank, RamEnabled>>
    /\ UNCHANGED <<kind, Ram, RamBank, RomBanking, Rtc, LatchedRtc, Latched>>

MBC2_WriteRAM(address, value) ==
    /\ kind = "MBC2"
    /\ Returns("WriteRAM", address, value, 0)
    /\ Ram' = IF RamEnabled
              THEN RamSet(Ram, address - 40960, BitAnd(value, 15)) ELSE Ram
    /\ UNCHANGED <<kind, RomBank, RamEnabled, RamBank, RomBanking, Rtc,
                   LatchedRtc, Latched>>

-----------------------------------------------------------------------------
(* MBC3 (src/pkg/cart/mbc3.go)                                             *)

\* r.Rtc[i] and r.LatchedRtc[i]: both slices hold 0x10 entries
RtcRead(file, i) == IF i < 16 THEN file[i] ELSE Panic

MBC3_Read(address) ==
    IF address < 16384 THEN RomRead(address)
    ELSE IF address < 32768 THEN RomRead(BankedRomIndex(address))
    ELSE IF RamBank >= 4 THEN
        (IF Latched THEN RtcRead(LatchedRtc, RamBank) ELSE RtcRead(Rtc, RamBank))
    ELSE RamRead(Ram, BankedRamIndex(address))

\* RomBank after the write to [0x2000, 0x4000)
MBC3_SelectRomBank(value) ==
    IF BitAnd(value, 127) = 0 THEN 1 ELSE BitAnd(value, 127)

\* mutant: every value but 0x00 releases the latch
MBC3_LatchFlag_AnyReleases(value) ==
    IF value = 0 THEN TRUE ELSE FALSE

\* Latched after the write to [0x6000, 0x8000)
MBC3_LatchFlag(value) ==
    IF value = 1 THEN FALSE
    ELSE IF value = 0 THEN TRUE
    ELSE Latched

\* r.Rtc after the write to [0x6000, 0x8000): copy(r.Rtc, r.LatchedRtc) has
\* r.Rtc as its destination
MBC3_LatchRtc(value) ==
    IF value = 0 THEN LatchedRtc ELSE Rtc

\* r.LatchedRtc after the write to [0x6000, 0x8000): the source of the copy
MBC3_LatchLatchedRtc(value) ==
    LatchedRtc

MBC3_WriteROM(address, value) ==
    /\ kind = "MBC3"
    /\ Returns("WriteROM", address, value, 0)
    /\ IF address < 8192 THEN
           /\ RamEnabled' = (BitAnd(value, 10) # 0)
           /\ UNCHANGED <<RomBank, RamBank, Rtc, LatchedRtc, Latched>>
       ELSE IF address < 16384 THEN
           /\ RomBank' = MBC3_SelectRomBank(value)
           /\ UNCHANGED <<RamEnabled, RamBank, Rtc, LatchedRtc, Latched>>
       ELSE IF address < 24576 THEN
           /\ RamBank' = value
           /\ UNCHANGED <<RamEnabled, RomBank, Rtc, LatchedRtc, Latched>>
       ELSE
           /\ Latched' = MBC3_LatchFlag(value)
           /\ Rtc' = MBC3_LatchRtc(value)
           /\ LatchedRtc' = MBC3_LatchLatchedRtc(value)
           /\ UNCHANGED <<RamEnabled, RomBank, RamBank>>
    /\ UNCHANGED <<kind, Ram, RomBanking>>

MBC3_WriteRAM(address, value) ==
    /\ kind = "MBC3"
    /\ Returns("WriteRAM", address, value,
               IF RamEnabled /\ RamBank >= 16 THEN Panic ELSE 0)
    /\ IF RamEnabled /\ RamBank >= 4 /\ RamBank < 16 THEN
           /\ Rtc' = [Rtc EXCEPT ![RamBank] = value]
           /\ UNCHANGED Ram
       ELSE IF RamEnabled /\ RamBank < 4 THEN
           /\ Ram' = RamSet(Ram, BankedRamIndex(address), value)
           /\ UNCHANGED Rtc
       ELSE
           UNCHANGED <<Ram, Rtc>>
    /\ UNCHANGED <<kind, RomBank, RamEnabled, RamBank, RomBanking, LatchedRtc,
                   Latched>>

-----------------------------------------------------------------------------
(* MBC5 (src/pkg/cart/mbc2.go, lines 75-144)                               *)

MBC5_Read(address) ==
    IF address < 16384 THEN RomRead(address)
    ELSE IF address < 32768 THEN RomRead(BankedRomIndex(address))
    ELSE RamRead(Ram, BankedRamIndex(address))

\* RomBank after the write to [0x2000, 0x3000): the low 8 bits
MBC5_SelectRomBankLow(value) ==
    BitOr(BitAnd(RomBank, 256), value)

\* RomBank after the write to [0x3000, 0x4000): bit 8
MBC5_SelectRomBankHigh(value) ==
    BitOr(BitAnd(RomBank, 255), BitAnd(value, 1) * 256)

MBC5_WriteROM(address, value) ==
    /\ kind = "MBC5"
    /\ Returns("WriteROM", address, value, 0)
    /\ IF address < 8192 THEN
           /\ RamEnabled' = RamEnableWrite(value)
           /\ UNCHANGED <<RomBank, RamBank>>
       ELSE IF address < 12288 THEN
           /\ RomBank' = MBC5_SelectRomBankLow(value)
           /\ UNCHANGED <<RamEnabled, RamBank>>
       ELSE IF address < 16384 THEN
           /\ RomBank' = MBC5_SelectRomBankHigh(value)
           /\ UNCHANGED <<RamEnabled, RamBank>>
       ELSE IF address < 24576 THEN
           /\ RamBank' = BitAnd(value, 15)
           /\ UNCHANGED <<RamEnabled, RomBank>>
       ELSE
           UNCHANGED <<RamEnabled, RomBank, RamBank>>
    /\ UNCHANGED <<kind, Ram, RomBanking, Rtc, LatchedRtc, Latched>>

MBC5_WriteRAM(address, value) ==
    /\ kind = "MBC5"
    /\ Returns("WriteRAM", address, value,
               IF RamEnabled /\ BankedRamIndex(address) >= RamLen(kind)
               THEN Panic ELSE 0)
    /\ Ram' = IF RamEnabled /\ BankedRamIndex(address) < RamLen(kind)
              THEN RamSet(Ram, BankedRamIndex(address), value) ELSE Ram
    /\ UNCHANGED <<kind, RomBank, RamEnabled, RamBank, RomBanking, Rtc,
                   LatchedRtc, Latched>>

-----------------------------------------------------------------------------
(* Reads, through the BankingController interface.                         *)

\* the byte Read(address) returns on the controller as it stands, or Panic
ReadByte(address) ==
    CASE kind = "MBC1" -> MBC1_Read(address)
      [] kind = "MBC2" -> MBC2_Read(address)
      [] kind = "MBC3" -> MBC3_Read(address)
      [] kind = "MBC5" -> MBC5_Read(address)

Read(address) ==
    /\ Returns("Read", address, 0, ReadByte(address))
    /\ UNCHANGED <<kind, RomBank, RamEnabled, Ram, RamBank, RomBanking, Rtc,
                   LatchedRtc, Latched>>

-----------------------------------------------------------------------------
(* Save states of the controllers. A stream is the sequence of its bytes.  *)

\* binary.Write of a uint32 / int32, little endian
LE32(v) == <<v % 256, (v \div 256) % 256, (v \div 65536) % 256,
             (v \div 16777216) % 256>>

\* binary.Read of a uint32, little endian, at position i of stream s
ReadLE32(s, i) == s[i] + 256 * s[i + 1] + 65536 * s[i + 2] + 16777216 * s[i + 3]

BoolByte(b) == IF b THEN 1 ELSE 0

\* s[i], s[i+1], ..., as the 16 entries of an RTC register file
ReadRtc(s, i) == [j \in 0..15 |-> s[i + j]]

RtcBytes(file) == [j \in 1..16 |-> file[j - 1]]

\* BaseMBC.SaveState: the selected ROM bank and the RAM-enabled flag
BaseMBC_SaveState == LE32(RomBank) \o <<BoolByte(RamEnabled)>>

\* BaseMBC.LoadState into the controller c
BaseMBC_LoadState(c, s) ==
    [c EXCEPT !.RomBank = ReadLE32(s, 1), !.RamEnabled = (s[5] = 1)]

\* number of bytes BaseMBC.SaveState writes
BaseLen == Len(BaseMBC_SaveState)

MBC1_SaveState ==
    BaseMBC_SaveState \o <<BoolByte(RomBanking)>> \o <<RamBank % 256>>

MBC1_LoadState(c, s) ==
    [BaseMBC_LoadState(c, s) EXCEPT !.RomBanking = (s[BaseLen + 1] = 1),
                                    !.RamBank = s[BaseLen + 2]]

MBC3_SaveState ==
    BaseMBC_SaveState \o <<RamBank % 256>> \o RtcBytes(Rtc)
        \o RtcBytes(LatchedRtc) \o <<BoolByte(Latched)>>

MBC3_LoadState(c, s) ==
    [BaseMBC_LoadState(c, s) EXCEPT !.RamBank = s[BaseLen + 1],
                                    !.Rtc = ReadRtc(s, BaseLen + 2),
                                    !.LatchedRtc = ReadRtc(s, BaseLen + 18),
                                    !.Latched = (s[BaseLen + 34] = 1)]

\* MBC5 declares no SaveState and no LoadState of its own: the methods of the
\* embedded BaseMBC are the ones called, and they know nothing of MBC5.RamBank
MBC5_SaveState == BaseMBC_SaveState

MBC5_LoadState(c, s) == BaseMBC_LoadState(c, s)

\* MBC2 declares none either, and has no field beyond BaseMBC's
MBC2_SaveState == BaseMBC_SaveState

MBC2_LoadState(c, s) == BaseMBC_LoadState(c, s)

\* SaveState through the BankingController interface
SaveStateBytes ==
    CASE kind = "MBC1" -> MBC1_SaveState
      [] kind = "MBC2" -> MBC2_SaveState
      [] kind = "MBC3" -> MBC3_SaveState
      [] kind = "MBC5" -> MBC5_SaveState

LoadStateBytes(c, s) ==
    CASE kind = "MBC1" -> MBC1_LoadState(c, s)
      [] kind = "MBC2" -> MBC2_LoadState(c, s)
      [] kind = "MBC3" -> MBC3_LoadState(c, s)
      [] kind = "MBC5" -> MBC5_LoadState(c, s)

\* GetSaveData: a copy of r.Ram
GetSaveData == Ram

\* LoadSaveData(data) on the controller c: r.Ram = data
LoadSaveData(c, data) == [c EXCEPT !.Ram = data]

\* SaveState and GetSaveData on this controller, then a fresh controller
\* built from the same ROM, given the save data and the stream
Restore ==
    /\ Returns("LoadState", 0, 0, 0)
    /\ LET c == LoadStateBytes(LoadSaveData(NewMBC, GetSaveData), SaveStateBytes)
       IN  /\ RomBank' = c.RomBank
           /\ RamEnabled' = c.RamEnabled
           /\ Ram' = c.Ram
           /\ RamBank' = c.RamBank
           /\ RomBanking' = c.RomBanking
           /\ Rtc' = c.Rtc
           /\ LatchedRtc' = c.LatchedRtc
           /\ Latched' = c.Latched
    /\ UNCHANGED kind

-----------------------------------------------------------------------------
(* The controller, driven by arbitrary calls.                              *)

NextCart ==
    \/ \E a \in RomAddrs, v \in RomVals : MBC1_WriteROM(a, v)
    \/ \E a \in RomAddrs, v \in RomVals : MBC2_WriteROM(a, v)
    \/ \E a \in RomAddrs, v \in RomVals : MBC3_WriteROM(a, v)
    \/ \E a \in RomAddrs, v \in RomVals : MBC5_WriteROM(a, v)
    \/ \E a \in RamAddrs, v \in DataVals : MBC1_WriteRAM(a, v)
    \/ \E a \in RamAddrs, v \in DataVals : MBC2_WriteRAM(a, v)
    \/ \E a \in RamAddrs, v \in DataVals : MBC3_WriteRAM(a, v)
    \/ \E a \in RamAddrs, v \in DataVals : MBC5_WriteRAM(a, v)
    \/ \E a \in ReadAddrs : Read(a)
    \/ Restore

-----------------------------------------------------------------------------
(* pkg/gb: the machine (src/pkg/gb/gameboy.go). The operations are         *)
(* functions of the machine's fields, held as one record g.                *)

\* nesting depth of interrupt service reached by the interrupt model
MaxNest == 1

\* stack frames pushed below a base by the stack model
MaxDepth == 2

\* cycles handed to updateTimers in one behaviour of the timer model
MaxTotal == 1100

\* the divider's threshold (gameboy.go: "if gb.CPU.Divider >= 255")
DividerThreshold == 255

\* SP after the boot sequence: 0xFFFE
StackTop == 65534

\* PC after the boot sequence: 0x0100
EntryPoint == 256

\* cycle counts handed to updateTimers in one call
CycleSamples == {1, 4, 20, 255, 256}

\* values written to the interrupt-enable register: 0x05, 0x1F (it starts at 0x00)
IESamples == {5, 31}

\* 16-bit values pushed: 0x1234, 0x00FF, 0xFF00
PushVals == {4660, 255, 65280}

\* stack pointers loaded by the program: 0xFFFE (high RAM), 0xE000 and 0xC100
\* (work RAM) and 0x8000, whose bytes below lie in the cartridge ROM
StackBases == {65534, 57344, 49408, 32768}

Lines == 0..4

GBState ==
    [interruptsEnabling |-> interruptsEnabling, interruptsOn |-> interruptsOn,
     halted |-> halted, paused |-> paused, currentSpeed |-> currentSpeed,
     prepareSpeed |-> prepareSpeed,
     PC |-> PC, SP |-> SP, IFreg |-> IFreg, IEreg |-> IEreg,
     mem |-> mem, Divider |-> Divider, DIV |-> DIV,
     timerCounter |-> timerCounter, TIMA |-> TIMA, TMA |-> TMA, TAC |-> TAC]

\* uint16 arithmetic
Add16(a, n) == (a + n) % 65536

Sub16(a, n) == (a + 65536 - n) % 65536

\* bits.Test, bits.Set, bits.Reset
TestBit(b, i) == (b \div (2 ^ i)) % 2 = 1

SetBit(b, i) == IF TestBit(b, i) THEN b ELSE b + 2 ^ i

ResetBit(b, i) == IF TestBit(b, i) THEN b - 2 ^ i ELSE b

\* work RAM 0xC000-0xDFFF and high RAM 0xFF80-0xFFFE: bytes that read back
\* what was written
Ordinary(a) == (a >= 49152 /\ a <= 57343) \/ (a >= 65408 /\ a <= 65534)

\* Memory.Write: the interrupt registers are bytes of HighRAM, ordinary RAM
\* stores the byte, and a write elsewhere stores nothing in this machine
MemWrite(g, a, v) ==
    IF a = 65295 THEN [g EXCEPT !.IFreg = v]               \* 0xFF0F
    ELSE IF a = 65535 THEN [g EXCEPT !.IEreg = v]          \* 0xFFFF
    ELSE IF Ordinary(a) THEN [g EXCEPT !.mem = RamSet(g.mem, a, v)]
    ELSE g

\* Memory.Read
MemRead(g, a) ==
    IF a = 65295 THEN BitOr(g.IFreg, 224)
    ELSE IF a = 65535 THEN g.IEreg
    ELSE IF Ordinary(a) THEN RamAt(g.mem, a)
    ELSE 0

\* Memory.ReadHighRam(0xFF0F)
ReadHighRam(g, a) == MemRead(g, a)

\* requestInterrupt
requestInterrupt(g, interrupt) ==
    MemWrite(g, 65295, SetBit(BitOr(g.IFreg, 224), interrupt))

\* mutant: the low byte at SP-1 and the high byte at SP-2
pushStack_Swapped(g, address) ==
    LET sp == g.SP
        g1 == MemWrite(g, Sub16(sp, 1), BitAnd(address, 255))
        g2 == MemWrite(g1, Sub16(sp, 2), BitAnd(address, 65280) \div 256)
    IN  [g2 EXCEPT !.SP = Sub16(g2.SP, 2)]

\* pushStack
pushStack(g, address) ==
    LET sp == g.SP
        g1 == MemWrite(g, Sub16(sp, 1), BitAnd(address, 65280) \div 256)
        g2 == MemWrite(g1, Sub16(sp, 2), BitAnd(address, 255))
    IN  [g2 EXCEPT !.SP = Sub16(g2.SP, 2)]

\* popStack: the machine afterwards and the value returned
popStack(g) ==
    LET sp == g.SP
        byte1 == MemRead(g, sp)
        byte2 == MemRead(g, Add16(sp, 1)) * 256
    IN  [g |-> [g EXCEPT !.SP = Add16(g.SP, 2)], ret |-> BitOr(byte1, byte2)]

\* mutant: the vectors 0x10 apart
interruptAddresses_Stride == [i \in Lines |-> 64 + 16 * i]

\* interruptAddresses
interruptAddresses == [i \in Lines |-> 64 + 8 * i]     \* 0x40 .. 0x60

\* mutant: no early return for a CPU halted with interrupts off
serviceInterrupt_NoHaltCheck(g, interrupt) ==
    LET g1 == [g EXCEPT !.interruptsOn = FALSE, !.halted = FALSE]
        req == ResetBit(ReadHighRam(g1, 65295), interrupt)
        g2 == MemWrite(g1, 65295, req)
        g3 == pushStack(g2, g2.PC)
    IN  [g3 EXCEPT !.PC = interruptAddresses[interrupt]]

\* serviceInterrupt
serviceInterrupt(g, interrupt) ==
    IF ~g.interruptsOn /\ g.halted THEN [g EXCEPT !.halted = FALSE]
    ELSE LET g1 == [g EXCEPT !.interruptsOn = FALSE, !.halted = FALSE]
             req == ResetBit(ReadHighRam(g1, 65295), interrupt)
             g2 == MemWrite(g1, 65295, req)
             g3 == pushStack(g2, g2.PC)
         IN  [g3 EXCEPT !.PC = interruptAddresses[interrupt]]

\* the lines that are both requested and enabled
Requested(req, enabled) == {i \in Lines : TestBit(req, i) /\ TestBit(enabled, i)}

\* mutant: the loop scans i = 4, 3, .., 0
LastRequested(req, enabled) ==
    CHOOSE i \in Requested(req, enabled) :
        \A j \in Requested(req, enabled) : i >= j

\* the line the loop of doInterrupts stops at: it scans i = 0, 1, .., 4
FirstRequested(req, enabled) ==
    CHOOSE i \in Requested(req, enabled) :
        \A j \in Requested(req, enabled) : i <= j

\* mutant: the promotion of the pending enable is followed by the scan of
\* the lines in the same call
doInterrupts_PromoteAndScan(g) ==
    LET g1 == IF g.interruptsEnabling
              THEN [g EXCEPT !.interruptsOn = TRUE, !.interruptsEnabling = FALSE]
              ELSE g
    IN  IF ~g1.interruptsOn /\ ~g1.halted THEN [g |-> g1, cycles |-> 0]
        ELSE LET req == BitOr(g1.IFreg, 224)
                 enabled == g1.IEreg
             IN  IF req > 0 /\ Requested(req, enabled) # {}
                 THEN [g |-> serviceInterrupt(g1, FirstRequested(req, enabled)),
                       cycles |-> 20]
                 ELSE [g |-> g1, cycles |-> 0]

\* doInterrupts: the machine afterwards and the cycles returned
doInterrupts(g) ==
    IF g.interruptsEnabling THEN
        [g |-> [g EXCEPT !.interruptsOn = TRUE, !.interruptsEnabling = FALSE],
         cycles |-> 0]
    ELSE IF ~g.interruptsOn /\ ~g.halted THEN [g |-> g, cycles |-> 0]
    ELSE LET req == BitOr(g.IFreg, 224)
             enabled == g.IEreg
         IN  IF req > 0 /\ Requested(req, enabled) # {}
             THEN [g |-> serviceInterrupt(g, FirstRequested(req, enabled)),
                   cycles |-> 20]
             ELSE [g |-> g, cycles |-> 0]

\* isClockEnabled
isClockEnabled(g) == TestBit(g.TAC, 2)

\* getClockFreq
getClockFreq(g) == BitAnd(g.TAC, 3)

\* mutant: the thresholds of frequencies 1 and 2 exchanged
getClockFreqCount_Swapped(g) ==
    CASE getClockFreq(g) = 0 -> 1024
      [] getClockFreq(g) = 1 -> 64
      [] getClockFreq(g) = 2 -> 16
      [] OTHER -> 256

\* getClockFreqCount
getClockFreqCount(g) ==
    CASE getClockFreq(g) = 0 -> 1024
      [] getClockFreq(g) = 1 -> 16
      [] getClockFreq(g) = 2 -> 64
      [] OTHER -> 256

\* mutant: "> 255" for ">= 255"
dividerRegister_Strict(g, cycles) ==
    LET d == g.Divider + cycles
    IN  IF d > DividerThreshold
        THEN [g EXCEPT !.Divider = d - DividerThreshold, !.DIV = (g.DIV + 1) % 256]
        ELSE [g EXCEPT !.Divider = d]

\* dividerRegister
dividerRegister(g, cycles) ==
    LET d == g.Divider + cycles
    IN  IF d >= DividerThreshold
        THEN [g EXCEPT !.Divider = d - DividerThreshold, !.DIV = (g.DIV + 1) % 256]
        ELSE [g EXCEPT !.Divider = d]

\* mutant: the timer counter wraps from 0xFF to 0x00 with no request
timerTick_Wrap(g, freq) ==
    LET g1 == [g EXCEPT !.timerCounter = g.timerCounter - freq]
    IN  [g1 EXCEPT !.TIMA = (g1.TIMA + 1) % 256]

\* one pass of the loop of updateTimers
timerTick(g, freq) ==
    LET g1 == [g EXCEPT !.timerCounter = g.timerCounter - freq]
        tima == g1.TIMA
    IN  IF tima = 255
        THEN requestInterrupt([g1 EXCEPT !.TIMA = g1.TMA], 2)
        ELSE [g1 EXCEPT !.TIMA = tima + 1]

\* the loop of updateTimers: "for gb.timerCounter >= freq"
RECURSIVE timerLoop(_, _)
timerLoop(g, freq) ==
    IF g.timerCounter >= freq THEN timerLoop(timerTick(g, freq), freq) ELSE g

\* updateTimers
updateTimers(g, cycles) ==
    LET g1 == dividerRegister(g, cycles)
    IN  IF isClockEnabled(g1)
        THEN LET g2 == [g1 EXCEPT !.timerCounter = g1.timerCounter + cycles]
             IN  timerLoop(g2, getClockFreqCount(g2))
        ELSE g1

-----------------------------------------------------------------------------
(* Save states of the machine. The stream holds the fields modelled here,  *)
(* in the order SaveState writes them: PC, SP, timerCounter and the flag   *)
(* byte (the register pairs AF, BC, DE, HL and thisCpuTicks, which no      *)
(* operation of this model reads, are left out).                           *)

LE16(v) == <<v % 256, (v \div 256) % 256>>

ReadLE16(s, i) == s[i] + 256 * s[i + 1]

\* the flag byte written by SaveState
SaveInts(g) ==
    LET ints0 == 0
        ints1 == IF g.interruptsEnabling THEN 1 ELSE ints0
        ints2 == IF g.interruptsOn THEN BitOr(ints1, 2) ELSE ints1
        ints3 == IF g.halted THEN BitOr(ints2, 3) ELSE ints2
    IN  ints3

\* Gameboy.SaveState
SaveState(g) ==
    LE16(g.PC) \o LE16(g.SP) \o LE32(g.timerCounter) \o <<SaveInts(g)>>

\* Gameboy.LoadState
LoadState(g, s) ==
    LET ints == s[9]
    IN  [g EXCEPT !.PC = ReadLE16(s, 1),
                  !.SP = ReadLE16(s, 3),
                  !.timerCounter = ReadLE32(s, 5),
                  !.interruptsEnabling = (BitAnd(ints, 1) # 0),
                  !.interruptsOn = (BitAnd(ints, 2) # 0),
                  !.halted = (BitAnd(ints, 4) # 0)]

-----------------------------------------------------------------------------
(* The machine's actions.                                                  *)

GBCalled(op, arg, ret) == [op |-> op, arg |-> arg, ret |-> ret]

\* a call on the machine that leaves it as g: record the call and the fields
\* it found; cycles is what the call hands to updateTimers
GBReturns(op, arg, ret, g, cycles) ==
    /\ gbcall' = GBCalled(op, arg, ret)
    /\ gbpre' = GBState
    /\ interruptsEnabling' = g.interruptsEnabling
    /\ interruptsOn' = g.interruptsOn
    /\ halted' = g.halted
    /\ paused' = g.paused
    /\ currentSpeed' = g.currentSpeed
    /\ prepareSpeed' = g.prepareSpeed
    /\ PC' = g.PC
    /\ SP' = g.SP
    /\ IFreg' = g.IFreg
    /\ IEreg' = g.IEreg
    /\ mem' = g.mem
    /\ Divider' = g.Divider
    /\ DIV' = g.DIV
    /\ timerCounter' = g.timerCounter
    /\ TIMA' = g.TIMA
    /\ TMA' = g.TMA
    /\ TAC' = g.TAC
    /\ elapsed' = elapsed + cycles
    /\ allSmall' = (allSmall /\ cycles <= DividerThreshold)
    /\ UNCHANGED <<DIVstart, TIMAstart>>
    /\ UNCHANGED cartVars
    /\ UNCHANGED loopVars

\* the stack pointers of the interrupt model and of the stack model
IntSPs == {StackTop - 2 * k : k \in 0..MaxNest}

StackSPs == {b - 2 * k : b \in StackBases, k \in 0..MaxDepth}

RequestInterrupt(i) ==
    GBReturns("requestInterrupt", i, 0, requestInterrupt(GBState, i), 0)

DoInterrupts ==
    LET r == doInterrupts(GBState)
    IN  /\ r.g.SP \in IntSPs
        /\ GBReturns("doInterrupts", 0, r.cycles, r.g, 0)

\* the instructions EI, DI and HALT, and a store to 0xFFFF
EI == GBReturns("EI", 0, 0, [GBState EXCEPT !.interruptsEnabling = TRUE], 0)

DI == GBReturns("DI", 0, 0, [GBState EXCEPT !.interruptsOn = FALSE], 0)

Halt == GBReturns("HALT", 0, 0, [GBState EXCEPT !.halted = TRUE], 0)

WriteIE(v) == GBReturns("WriteIE", v, 0, MemWrite(GBState, 65535, v), 0)

\* the instruction RETI: pop the program counter, enable interrupts
Reti ==
    LET r == popStack(GBState)
    IN  /\ SP # StackTop
        /\ GBReturns("RETI", 0, r.ret,
                     [r.g EXCEPT !.PC = r.ret, !.interruptsEnabling = TRUE], 0)

\* SaveState, then LoadState of the stream it produced
SaveLoad ==
    GBReturns("LoadState", 0, 0, LoadState(GBState, SaveState(GBState)), 0)

PushStack(v) ==
    /\ Sub16(SP, 2) \in StackSPs
    /\ GBReturns("pushStack", v, 0, pushStack(GBState, v), 0)

PopStack ==
    LET r == popStack(GBState)
    IN  /\ Add16(SP, 2) \in StackSPs
        /\ GBReturns("popStack", 0, r.ret, r.g, 0)

\* pushStack(v) followed immediately by popStack
PushPop(v) ==
    LET r == popStack(pushStack(GBState, v))
    IN  GBReturns("pushStack;popStack", v, r.ret, r.g, 0)

UpdateTimers(cycles) ==
    /\ elapsed + cycles <= MaxTotal
    /\ GBReturns("updateTimers", cycles, 0, updateTimers(GBState, cycles), cycles)

-----------------------------------------------------------------------------
(* Initial states and specifications.                                      *)

\* the machine with interrupts off, running at the entry point, with the
\* given stack pointer and timer registers
InitMachine(sp, div, tima, tma, tac) ==
    /\ interruptsEnabling = FALSE
    /\ interruptsOn = FALSE
    /\ halted = FALSE
    /\ paused = FALSE
    /\ currentSpeed = 0
    /\ prepareSpeed = FALSE
    /\ upc = "idle"
    /\ frameCycles = 0
    /\ instr = "none"
    /\ sinceEI = 2
    /\ executed = 0
    /\ ran = FALSE
    /\ PC = EntryPoint
    /\ SP = sp
    /\ IFreg = 0
    /\ IEreg = 0
    /\ mem = EmptyRam
    /\ Divider = 0
    /\ DIV = div
    /\ timerCounter = 0
    /\ TIMA = tima
    /\ TMA = tma
    /\ TAC = tac
    /\ gbcall = GBCalled("New", 0, 0)
    /\ gbpre = GBState
    /\ elapsed = 0
    /\ allSmall = TRUE
    /\ DIVstart = div
    /\ TIMAstart = tima

InitIdle == InitMachine(StackTop, 0, 0, 0, 0)

\* the banking controllers
InitCartridge == InitCart /\ InitIdle

SpecCart == InitCartridge /\ [][NextCart]_vars

\* interrupts
NextInt ==
    \/ \E i \in Lines : RequestInterrupt(i)
    \/ \E v \in IESamples : WriteIE(v)
    \/ EI
    \/ DI
    \/ Halt
    \/ DoInterrupts
    \/ Reti
    \/ SaveLoad

InitInt == InitNew("MBC1") /\ InitIdle

SpecInt == InitInt /\ [][NextInt]_vars

\* the stack
NextStack ==
    \/ \E v \in PushVals : PushStack(v)
    \/ PopStack
    \/ \E v \in PushVals : PushPop(v)

InitStack ==
    /\ InitNew("MBC1")
    /\ \E sp \in StackBases : InitMachine(sp, 0, 0, 0, 0)

SpecStack == InitStack /\ [][NextStack]_vars

\* the divider and the timer
\* divider register at the start: 0x00, 0xFF
DivSamples == {0, 255}

\* timer counter at the start: 0x00, 0xFF
TimaSamples == {0, 255}

\* timer modulo: 0x80
TmaSamples == {128}

\* timer control: disabled, and enabled at each of the four frequencies
TacSamples == {0, 4, 5, 6, 7}

NextTimer == \E c \in CycleSamples : UpdateTimers(c)

InitTimer ==
    /\ InitNew("MBC1")
    /\ \E div \in DivSamples, tima \in TimaSamples, tma \in TmaSamples,
          tac \in TacSamples : InitMachine(StackTop, div, tima, tma, tac)

SpecTimer == InitTimer /\ [][NextTimer]_vars

-----------------------------------------------------------------------------
(* Claims about the banking controllers, checked under SpecCart.           *)

\* the last call was WriteROM(address, value) with address in [lo, hi)
WroteROM(k, lo, hi) ==
    /\ kind = k
    /\ call.op = "WriteROM"
    /\ call.address >= lo
    /\ call.address < hi

\* C1: for MBC1, MBC2, MBC3 and MBC5, after any sequence of WriteROM calls
\* from construction, the selected ROM bank is never 0.
C1_RomBankNeverZero == RomBank # 0

\* what a read of the RAM window returns on controller c for each RTC
\* register that can be selected
RtcView(c) ==
    [i \in 4..15 |-> IF c.Latched THEN c.LatchedRtc[i] ELSE c.Rtc[i]]

\* C2: MBC3, RTC register selected: after a write of 0x00 to [0x6000,0x8000)
\* a read of every RTC register returns the value the live register held
\* when 0x00 was written, and keeps returning it while the latch stays
\* armed, whatever is written to the live register meanwhile.
C2_LatchReadsSnapshot ==
    /\ (WroteROM("MBC3", 24576, 32768) /\ call.value = 0)
           => RtcView(CartState) = [i \in 4..15 |-> pre.Rtc[i]]
    /\ (kind = "MBC3" /\ pre.Latched /\ Latched
            /\ ~(WroteROM("MBC3", 24576, 32768) /\ call.value = 0))
           => RtcView(CartState) = RtcView(pre)

\* C3: MBC3: a write of 0x01 to [0x6000,0x8000) clears the latch flag and
\* leaves every entry of the latched snapshot unchanged; a write of any
\* value other than 0x00 and 0x01 to that range changes neither the latch
\* flag nor either RTC register file.
C3_LatchReleaseFrame ==
    WroteROM("MBC3", 24576, 32768) =>
        /\ call.value = 1 => (~Latched /\ LatchedRtc = pre.LatchedRtc)
        /\ call.value \notin {0, 1} =>
               (Latched = pre.Latched /\ Rtc = pre.Rtc
                    /\ LatchedRtc = pre.LatchedRtc)

\* a write of 0x01 that found the latch armed by an earlier write of 0x00
C3_Witness ==
    /\ WroteROM("MBC3", 24576, 32768)
    /\ call.value = 1
    /\ pre.Latched
    /\ ~Latched

\* C4: MBC1: a write to [0x6000,0x8000) that switches the controller from
\* RAM-banking mode to ROM-banking mode leaves the RAM bank at 0 and the
\* ROM bank below 0x20.
C4_ModeSwitchToRomBanking ==
    (WroteROM("MBC1", 24576, 32768) /\ ~pre.RomBanking /\ RomBanking) =>
        (RamBank = 0 /\ RomBank < 32)

\* the switch, made with RAM bank 2 selected
C4_Witness ==
    /\ WroteROM("MBC1", 24576, 32768)
    /\ ~pre.RomBanking
    /\ RomBanking
    /\ pre.RamBank = 2
    /\ RamBank = 0

\* C8: for each variant, SaveState followed by LoadState into a fresh
\* controller built from the same ROM restores every field of the variant,
\* so that every read returns the same byte as on the original.
C8_CartRoundTrip ==
    call.op = "LoadState" => CartState = pre

-----------------------------------------------------------------------------
(* Claims about interrupts and save states, checked under SpecInt.         *)

\* the lines both requested and enabled on machine g
PendingOf(g) == Requested(BitOr(g.IFreg, 224), g.IEreg)

Lowest(S) == CHOOSE i \in S : \A j \in S : i <= j

\* C5: doInterrupts called with interrupts on, no promotion due, and several
\* lines both requested and enabled: the line with the lowest number is the
\* one serviced, it is the only one (one vector, one push), and the request
\* bits of all other lines are still set.
C5_InterruptPriority ==
    (/\ gbcall.op = "doInterrupts"
     /\ gbpre.interruptsOn
     /\ ~gbpre.interruptsEnabling
     /\ Cardinality(PendingOf(gbpre)) >= 2) =>
        LET i == Lowest(PendingOf(gbpre))
        IN  /\ PC = interruptAddresses[i]
            /\ SP = Sub16(gbpre.SP, 2)
            /\ ~TestBit(IFreg, i)
            /\ \A j \in Lines \ {i} : TestBit(IFreg, j) = TestBit(gbpre.IFreg, j)

\* V-Blank and Timer both pending: V-Blank serviced, Timer still requested
C5_Witness ==
    /\ gbcall.op = "doInterrupts"
    /\ gbpre.interruptsOn
    /\ ~gbpre.interruptsEnabling
    /\ PendingOf(gbpre) = {0, 2}
    /\ PC = interruptAddresses[0]
    /\ TestBit(IFreg, 2)

\* C6: doInterrupts with halted, interrupts off, no promotion due and some
\* line both requested and enabled: the CPU is un-halted, and PC, SP, the
\* stack memory and the interrupts-enabled flag are unchanged.
C6_HaltedInterruptsOff ==
    (/\ gbcall.op = "doInterrupts"
     /\ gbpre.halted
     /\ ~gbpre.interruptsOn
     /\ ~gbpre.interruptsEnabling
     /\ PendingOf(gbpre) # {}) =>
        /\ ~halted
        /\ PC = gbpre.PC
        /\ SP = gbpre.SP
        /\ mem = gbpre.mem
        /\ interruptsOn = gbpre.interruptsOn

C6_Witness ==
    /\ gbcall.op = "doInterrupts"
    /\ gbpre.halted
    /\ ~gbpre.interruptsOn
    /\ ~gbpre.interruptsEnabling
    /\ PendingOf(gbpre) # {}
    /\ ~halted

\* C7: SaveState followed by LoadState of the produced stream restores each
\* of interruptsEnabling, interruptsOn and halted to the value it had.
C7_FlagsRoundTrip ==
    gbcall.op = "LoadState" =>
        /\ interruptsEnabling = gbpre.interruptsEnabling
        /\ interruptsOn = gbpre.interruptsOn
        /\ halted = gbpre.halted

-----------------------------------------------------------------------------
(* The stack, checked under SpecStack.                                     *)

\* the two bytes below sp lie in ordinary RAM
StackInRam(sp) == Ordinary(Sub16(sp, 1)) /\ Ordinary(Sub16(sp, 2))

\* C9: with the bytes at SP-1 and SP-2 in ordinary RAM, pushStack(v) stores
\* the high byte at SP-1 and the low byte at SP-2 and decrements SP by 2,
\* and pushStack(v) followed immediately by popStack returns v and leaves
\* SP as it was before the push.
C9_StackRoundTrip ==
    /\ (gbcall.op = "pushStack" /\ StackInRam(gbpre.SP)) =>
           /\ SP = Sub16(gbpre.SP, 2)
           /\ MemRead(GBState, Sub16(gbpre.SP, 1)) = gbcall.arg \div 256
           /\ MemRead(GBState, Sub16(gbpre.SP, 2)) = gbcall.arg % 256
    /\ (gbcall.op = "pushStack;popStack" /\ StackInRam(gbpre.SP)) =>
           /\ gbcall.ret = gbcall.arg
           /\ SP = gbpre.SP

\* 0x1234 pushed and popped again
C9_Witness ==
    /\ gbcall.op = "pushStack;popStack"
    /\ StackInRam(gbpre.SP)
    /\ gbcall.arg = 4660
    /\ gbcall.ret = 4660

-----------------------------------------------------------------------------
(* The divider, checked under SpecTimer.                                   *)

\* C10: from an internal counter of 0, after timer updates of at most 255
\* cycles each that sum to T, the divider register has advanced by
\* floor(T/255) modulo 256 and the internal counter is T mod 255.
C10_Divider ==
    allSmall =>
        /\ DIV = (DIVstart + (elapsed \div DividerThreshold)) % 256
        /\ Divider = elapsed % DividerThreshold

\* exactly 255 cycles in one update: the register advanced by 1 and the
\* counter is back at 0
C10_Witness ==
    /\ gbcall.op = "updateTimers"
    /\ gbcall.arg = 255
    /\ elapsed = 255
    /\ DIV = (DIVstart + 1) % 256
    /\ Divider = 0

\* the thresholds as the frequency table states them
C11_Threshold(f) ==
    CASE f = 0 -> 1024
      [] f = 1 -> 16
      [] f = 2 -> 64
      [] f = 3 -> 256

\* C11: with the timer enabled, the accumulator at 0 and the timer counter
\* below 0xFF at the start, the timer counter has advanced by exactly 1 once
\* exactly threshold(f) cycles have run, in one update or in several, and has
\* not advanced while fewer cycles have run
C11_TimerFrequencyTable ==
    LET T == C11_Threshold(TAC % 4)
    IN  (TestBit(TAC, 2) /\ TIMAstart < 255 /\ elapsed <= T) =>
            /\ elapsed = T => TIMA = TIMAstart + 1
            /\ elapsed < T => TIMA = TIMAstart

\* frequency 0: four updates of 256 cycles have run, 1024 in all
C11_Witness ==
    /\ gbcall.op = "updateTimers"
    /\ gbcall.arg = 256
    /\ TAC = 4
    /\ TIMAstart = 0
    /\ elapsed = 1024
    /\ TIMA = 1

-----------------------------------------------------------------------------
(* Further claims about the banking controllers, checked under SpecCart.   *)

\* C12: no access of the RAM window (0xA000-0xBFFF), read or write, indexes
\* the RAM buffer or an RTC register file out of range, whatever was written
\* to the bank-select ranges before
C12_RamWindowInBounds ==
    ~(panicked /\ call.op \in {"Read", "WriteRAM"} /\ call.address >= 40960)

\* C13: WriteRAM with the RAM disabled changes neither the RAM buffer nor
\* the RTC register files, and WriteROM never changes the RAM buffer
C13_RamFrame ==
    /\ (call.op = "WriteRAM" /\ ~pre.RamEnabled) =>
           /\ Ram = pre.Ram
           /\ Rtc = pre.Rtc
           /\ LatchedRtc = pre.LatchedRtc
    /\ call.op = "WriteROM" => Ram = pre.Ram

\* the buffer holds a non-zero byte and a write of 0x00 has arrived while
\* the RAM was disabled
C13_Witness ==
    /\ call.op = "WriteRAM"
    /\ ~pre.RamEnabled
    /\ call.value = 0
    /\ pre.Ram # EmptyRam
    /\ Ram = pre.Ram

-----------------------------------------------------------------------------
(* Further claims about interrupts, checked under SpecInt.                 *)

\* the fixed vectors of lines 0..4: 0x40, 0x48, 0x50, 0x58, 0x60
C15_Vector(i) ==
    CASE i = 0 -> 64
      [] i = 1 -> 72
      [] i = 2 -> 80
      [] i = 3 -> 88
      [] i = 4 -> 96

\* C15: doInterrupts called with interrupts on, no promotion due and a line
\* both requested and enabled services the lowest such line i: the program
\* counter it found is on the stack (high byte at SP-1, low byte at SP-2, SP
\* lowered by 2), the program counter is the vector of line i, halted and
\* interruptsOn are false, request bit i is clear and the other request
\* bits are as they were
C15_FullService ==
    (/\ gbcall.op = "doInterrupts"
     /\ gbpre.interruptsOn
     /\ ~gbpre.interruptsEnabling
     /\ PendingOf(gbpre) # {}) =>
        LET i == Lowest(PendingOf(gbpre))
        IN  /\ SP = Sub16(gbpre.SP, 2)
            /\ RamAt(mem, Sub16(gbpre.SP, 1)) = gbpre.PC \div 256
            /\ RamAt(mem, Sub16(gbpre.SP, 2)) = gbpre.PC % 256
            /\ PC = C15_Vector(i)
            /\ ~halted
            /\ ~interruptsOn
            /\ ~TestBit(IFreg, i)
            /\ \A j \in Lines \ {i} : TestBit(IFreg, j) = TestBit(gbpre.IFreg, j)

\* the Timer line serviced on a halted CPU running at 0x0100, with the
\* Joypad line requested as well
C15_Witness ==
    /\ gbcall.op = "doInterrupts"
    /\ gbpre.interruptsOn
    /\ ~gbpre.interruptsEnabling
    /\ gbpre.halted
    /\ gbpre.PC = EntryPoint
    /\ PendingOf(gbpre) = {2, 4}
    /\ PC = 80
    /\ RamAt(mem, Sub16(gbpre.SP, 1)) = 1
    /\ TestBit(IFreg, 4)

\* the call pushed the program counter and set it to a vector
C16_Serviced ==
    /\ SP = Sub16(gbpre.SP, 2)
    /\ PC \in {C15_Vector(i) : i \in Lines}

\* C16: doInterrupts returns 20 exactly when it performed a full service,
\* and 0 in every other outcome
C16_CyclesIffService ==
    gbcall.op = "doInterrupts" =>
        /\ gbcall.ret \in {0, 20}
        /\ gbcall.ret = 20 <=> C16_Serviced

\* C17: whenever doInterrupts selects a line (no promotion due, interrupts
\* on or the CPU halted, some line both requested and enabled), the request
\* bit of the selected line is clear afterwards
C17_RequestCleared ==
    (/\ gbcall.op = "doInterrupts"
     /\ ~gbpre.interruptsEnabling
     /\ gbpre.interruptsOn \/ gbpre.halted
     /\ PendingOf(gbpre) # {}) =>
        ~TestBit(IFreg, Lowest(PendingOf(gbpre)))

-----------------------------------------------------------------------------
(* Further claims about the timer, checked under SpecTimer.                *)

\* the timer counter register after n steps from tima: one up, and from 0xFF
\* to the timer modulo
RECURSIVE C19_Tima(_, _, _)
C19_Tima(tima, tma, n) ==
    IF n = 0 THEN tima
    ELSE C19_Tima(IF tima = 255 THEN tma ELSE tima + 1, tma, n - 1)

\* one of the n steps from tima starts at 0xFF
C19_Overflows(tima, tma, n) ==
    \E k \in 0..(n - 1) : C19_Tima(tima, tma, k) = 255

\* C19: an update with the timer enabled steps the timer counter register
\* once for each time the accumulated cycles reach the threshold, a step
\* from 0xFF reloading the timer modulo and raising the Timer request (bit 2
\* of the interrupt-flag register); an update with the enable bit clear
\* changes neither the accumulator nor the timer counter register and raises
\* no Timer request
C19_TimerOverflow ==
    gbcall.op = "updateTimers" =>
        LET T == C11_Threshold(gbpre.TAC % 4)
            total == gbpre.timerCounter + gbcall.arg
            n == total \div T
        IN  IF TestBit(gbpre.TAC, 2)
            THEN /\ timerCounter = total % T
                 /\ TIMA = C19_Tima(gbpre.TIMA, gbpre.TMA, n)
                 /\ TestBit(IFreg, 2) <=>
                        (TestBit(gbpre.IFreg, 2) \/
                         C19_Overflows(gbpre.TIMA, gbpre.TMA, n))
            ELSE /\ timerCounter = gbpre.timerCounter
                 /\ TIMA = gbpre.TIMA
                 /\ IFreg = gbpre.IFreg

\* an update of 20 cycles at threshold 16 has taken the timer counter from
\* 0xFF to the timer modulo and raised the Timer request
C19_Witness ==
    /\ gbcall.op = "updateTimers"
    /\ gbcall.arg = 20
    /\ gbpre.TAC = 5
    /\ gbpre.TIMA = 255
    /\ ~TestBit(gbpre.IFreg, 2)
    /\ TIMA = gbpre.TMA
    /\ TestBit(IFreg, 2)

-----------------------------------------------------------------------------
(* Update (src/pkg/gb/gameboy.go, lines 73-97): one frame of the machine.  *)
(* The instruction dispatcher, the graphics and the sound are not part of  *)
(* the files modelled; the program run is a few instructions drawn from     *)
(* Instructions followed by a jump to itself, and the display is off.      *)

\* instructions the program holds before its closing jump
MaxProg == 2

ClockSpeed == 4194304

FramesSecond == 60

CyclesFrame == ClockSpeed \div FramesSecond

\* the cycles counted for an iteration that finds the CPU halted
HaltedTick == 4

Instructions == {"NOP", "EI", "DI", "HALT", "STOP"}

\* getSpeed
getSpeed(g) == g.currentSpeed + 1

\* a switch that only ever selects double speed
checkSpeedSwitch_Double(g) ==
    IF g.prepareSpeed
    THEN [g EXCEPT !.prepareSpeed = FALSE, !.currentSpeed = 1, !.halted = FALSE]
    ELSE g

\* checkSpeedSwitch
checkSpeedSwitch(g) ==
    IF g.prepareSpeed
    THEN [g EXCEPT !.prepareSpeed = FALSE,
                   !.currentSpeed = IF g.currentSpeed = 0 THEN 1 ELSE 0,
                   !.halted = FALSE]
    ELSE g

\* togglePaused
togglePaused(g) == [g EXCEPT !.paused = ~g.paused]

\* ExecuteNextOpcode: the machine afterwards and the cycles reported. NOP, EI,
\* DI, HALT and STOP are one-byte steps of 4 cycles, STOP performing the
\* speed switch; JP jumps to itself in 16 cycles
ExecuteNextOpcode(g, op) ==
    LET next == [g EXCEPT !.PC = Add16(g.PC, 1)]
    IN  CASE op = "NOP" -> [g |-> next, cycles |-> 4]
          [] op = "EI" -> [g |-> [next EXCEPT !.interruptsEnabling = TRUE],
                           cycles |-> 4]
          [] op = "DI" -> [g |-> [next EXCEPT !.interruptsOn = FALSE],
                           cycles |-> 4]
          [] op = "HALT" -> [g |-> [next EXCEPT !.halted = TRUE], cycles |-> 4]
          [] op = "STOP" -> [g |-> checkSpeedSwitch(next), cycles |-> 4]
          [] op = "JP" -> [g |-> g, cycles |-> 16]

\* updateGraphics with the display off: no request is raised
updateGraphics(g, cyclesOp) == g

\* mutant: the paused flag is not looked at
Update_paused_Never(g) == FALSE

\* "if gb.paused"
Update_paused(g) == g.paused

\* mutant: the loop runs for half of the budget
Update_continue_Half(g, total) == total < (CyclesFrame * getSpeed(g)) \div 2

\* "for cycles < CyclesFrame*gb.getSpeed()"
Update_continue(g, total) == total < CyclesFrame * getSpeed(g)

\* one pass of the loop of Update on machine g, executing op when the CPU is
\* not halted: the machine as doInterrupts found it, the machine afterwards,
\* the cycles of the instruction and the cycles of doInterrupts
Update_iteration(g, op) ==
    LET ex == IF ~g.halted THEN ExecuteNextOpcode(g, op)
              ELSE [g |-> g, cycles |-> HaltedTick]
        cyclesOp == ex.cycles
        g1 == updateGraphics(ex.g, cyclesOp)
        g2 == updateTimers(g1, cyclesOp)
        r == doInterrupts(g2)
    IN  [found |-> g2, g |-> r.g, cyclesOp |-> cyclesOp, cyclesInt |-> r.cycles]

\* what the CPU meets at the program counter
Fetched ==
    IF halted THEN {"none"}
    ELSE IF executed < MaxProg THEN Instructions
    ELSE {"JP"}

\* the machine's fields become those of g
Becomes(g) ==
    /\ interruptsEnabling' = g.interruptsEnabling
    /\ interruptsOn' = g.interruptsOn
    /\ halted' = g.halted
    /\ paused' = g.paused
    /\ currentSpeed' = g.currentSpeed
    /\ prepareSpeed' = g.prepareSpeed
    /\ PC' = g.PC
    /\ SP' = g.SP
    /\ IFreg' = g.IFreg
    /\ IEreg' = g.IEreg
    /\ mem' = g.mem
    /\ Divider' = g.Divider
    /\ DIV' = g.DIV
    /\ timerCounter' = g.timerCounter
    /\ TIMA' = g.TIMA
    /\ TMA' = g.TMA
    /\ TAC' = g.TAC

\* Update is called: it returns 0 at once on a paused machine, and enters
\* its loop with cycles = 0 otherwise
UpdateCall ==
    /\ upc = "idle"
    /\ IF Update_paused(GBState)
       THEN /\ gbcall' = GBCalled("Update", 0, 0)
            /\ UNCHANGED <<upc, ran>>
       ELSE /\ ~ran
            /\ gbcall' = GBCalled("Update:enter", 0, 0)
            /\ upc' = "loop"
            /\ ran' = TRUE
    /\ gbpre' = GBState
    /\ frameCycles' = 0
    /\ Becomes(GBState)
    /\ UNCHANGED <<elapsed, allSmall, DIVstart, TIMAstart, instr, sinceEI,
                   executed>>
    /\ UNCHANGED cartVars

\* one pass of the loop; the call recorded is that of doInterrupts
UpdateStep ==
    /\ upc = "loop"
    /\ Update_continue(GBState, frameCycles)
    /\ \E op \in Fetched :
          LET it == Update_iteration(GBState, op)
          IN  /\ frameCycles' = frameCycles + it.cyclesOp + it.cyclesInt
              /\ gbcall' = GBCalled("Update:doInterrupts", it.cyclesOp, it.cyclesInt)
              /\ gbpre' = it.found
              /\ Becomes(it.g)
              /\ instr' = op
              /\ sinceEI' = IF op = "EI" THEN 0
                            ELSE IF op = "none" \/ sinceEI = 2 THEN sinceEI
                            ELSE sinceEI + 1
              /\ executed' = IF op \in Instructions THEN executed + 1 ELSE executed
              /\ elapsed' = elapsed + it.cyclesOp
              /\ allSmall' = (allSmall /\ it.cyclesOp <= DividerThreshold)
    /\ UNCHANGED <<upc, ran, DIVstart, TIMAstart>>
    /\ UNCHANGED cartVars

\* the loop's condition fails: Update returns cycles
UpdateReturn ==
    /\ upc = "loop"
    /\ ~Update_continue(GBState, frameCycles)
    /\ upc' = "idle"
    /\ gbcall' = GBCalled("Update", 0, frameCycles)
    /\ gbpre' = GBState
    /\ frameCycles' = 0
    /\ Becomes(GBState)
    /\ UNCHANGED <<ran, elapsed, allSmall, DIVstart, TIMAstart, instr, sinceEI,
                   executed>>
    /\ UNCHANGED cartVars

\* between frames the host toggles the pause, a button press requests the
\* Joypad or the V-Blank line, and the program's earlier writes have set the
\* interrupt-enable register and armed the speed switch
TogglePaused ==
    /\ upc = "idle"
    /\ GBReturns("togglePaused", 0, 0, togglePaused(GBState), 0)

HostRequest ==
    /\ upc = "idle"
    /\ ~ran
    /\ RequestInterrupt(0)

HostWriteIE ==
    /\ upc = "idle"
    /\ ~ran
    /\ WriteIE(5)

ArmSpeedSwitch ==
    /\ upc = "idle"
    /\ ~ran
    /\ GBReturns("armSpeedSwitch", 0, 0, [GBState EXCEPT !.prepareSpeed = TRUE], 0)

NextUpdate ==
    \/ TogglePaused
    \/ HostRequest
    \/ HostWriteIE
    \/ ArmSpeedSwitch
    \/ UpdateCall
    \/ UpdateStep
    \/ UpdateReturn

InitUpdate == InitNew("MBC1") /\ InitIdle

\* one frame
SpecUpdate == InitUpdate /\ [][NextUpdate]_vars

-----------------------------------------------------------------------------
(* Claims about Update, checked under SpecUpdate.                          *)

\* C14: Update called on a paused machine returns 0 and leaves every field
\* of the machine as it was (registers, memory, timer and divider counters,
\* interrupt, halt and speed flags); no pass of the loop runs while the
\* machine is paused
C14_PausedNoOp ==
    /\ paused => upc = "idle"
    /\ (gbcall.op = "Update" /\ gbpre.paused) =>
           /\ gbcall.ret = 0
           /\ GBState = gbpre
           /\ upc = "idle"

\* Update was called on a paused machine with a request pending, an
\* interrupt enabled and the speed switch armed
C14_Witness ==
    /\ gbcall.op = "Update"
    /\ gbpre.paused
    /\ gbcall.ret = 0
    /\ PendingOf(GBState) # {}
    /\ prepareSpeed

\* the pass of the loop just made serviced an interrupt in full
C18_Serviced ==
    /\ gbcall.op = "Update:doInterrupts"
    /\ gbcall.ret = 20
    /\ SP = Sub16(gbpre.SP, 2)

\* C18: a doInterrupts call that finds the pending enable set turns it into
\* interruptsOn, returns 0 and services nothing (program counter, stack,
\* request bits and halted flag as it found them); and in the loop of Update
\* no interrupt is serviced in the pass that executes EI, so that at least
\* one instruction is executed after EI before a service
C18_DelayedEnable ==
    /\ (gbcall.op = "Update:doInterrupts" /\ gbpre.interruptsEnabling) =>
           /\ interruptsOn
           /\ ~interruptsEnabling
           /\ gbcall.ret = 0
           /\ PC = gbpre.PC
           /\ SP = gbpre.SP
           /\ mem = gbpre.mem
           /\ IFreg = gbpre.IFreg
           /\ halted = gbpre.halted
    /\ C18_Serviced => sinceEI >= 1

\* a line was requested and enabled when EI was executed; the next pass
\* executed one instruction and then serviced the line
C18_Witness ==
    /\ C18_Serviced
    /\ sinceEI = 1
    /\ instr = "NOP"
    /\ executed = 2
    /\ PC = 64

\* C20: a non-paused Update ends, and the total it returns is at least
\* CyclesFrame times the speed multiplier in force at the end of its loop.
\* It ends because every pass of the loop raises the total and a pass runs
\* only while the total is below twice CyclesFrame
C20_FrameCompletes ==
    /\ []((gbcall.op = "Update" /\ ~gbpre.paused) =>
              gbcall.ret >= CyclesFrame * (currentSpeed + 1))
    /\ [][(upc = "loop" /\ upc' = "loop") =>
              (frameCycles < 2 * CyclesFrame /\ frameCycles' > frameCycles)]_vars

\* HALT was the first instruction and no line was ever requested: the CPU
\* stayed halted for the rest of the frame, 17477 passes of 4 cycles
C20_Witness ==
    /\ gbcall.op = "Update"
    /\ ~gbpre.paused
    /\ halted
    /\ executed = 1
    /\ IFreg = 0
    /\ gbcall.ret = 69908

-----------------------------------------------------------------------------
(* Further claims about MBC3 and MBC1, checked under SpecCart.             *)

\* C21: on MBC3 with an RTC register selected (RamBank in 4..15), a read of
\* the RAM window that follows an enabled write, with no write to a
\* bank-select range in between, returns the byte written: the write and
\* the read use the same register file
C21_RtcWriteThenRead ==
    (/\ kind = "MBC3"
     /\ call.op = "WriteRAM"
     /\ pre.RamEnabled
     /\ pre.RamBank >= 4
     /\ pre.RamBank < 16) =>
        ReadByte(call.address) = call.value

\* C22: on MBC1 the ROM bank never exceeds 0x7F; a write to [0x4000,0x6000)
\* in ROM-banking mode leaves the RAM bank and the bits of the ROM bank above
\* bit 6 as they were, and in RAM-banking mode sets the RAM bank to a value
\* in 0..3 and leaves the ROM bank as it was
C22_BankExtension ==
    kind = "MBC1" =>
        /\ RomBank <= 127
        /\ WroteROM("MBC1", 16384, 24576) =>
               IF pre.RomBanking
               THEN /\ RamBank = pre.RamBank
                    /\ RomBank \div 128 = pre.RomBank \div 128
               ELSE /\ RamBank \in 0..3
                    /\ RomBank = pre.RomBank

-----------------------------------------------------------------------------
(* The speed switch on its own: the pending flag is armed, the CPU halts    *)
(* and wakes, and checkSpeedSwitch is called in any of these states.        *)

CheckSpeedSwitch ==
    GBReturns("checkSpeedSwitch", 0, 0, checkSpeedSwitch(GBState), 0)

NextSpeed ==
    \/ ArmSpeedSwitch
    \/ CheckSpeedSwitch
    \/ Halt
    \/ EI
    \/ DI
    \/ HostRequest
    \/ HostWriteIE
    \/ DoInterrupts

InitSpeed == InitNew("MBC1") /\ InitIdle

SpecSpeed == InitSpeed /\ [][NextSpeed]_vars

====
